---- MODULE Spec2Model ----
(***************************************************************************)
(* baron/path.py: the two resolvers over a rendered syntax tree.           *)
(*   PositionFinder     (line, column) -> path of the leaf under it         *)
(*   BoundingBoxFinder  path -> (top_left, bottom_right) of the node        *)
(* Both are PathWalker subclasses: a depth-first render walk that keeps    *)
(* the stack of render keys of the items currently entered.                *)
(*                                                                         *)
(* A tree is the render order of its items: a sequence of records          *)
(* [depth, key, kind, text] in pre-order, depth 1 for the items the root   *)
(* renders.  The root itself is not an item (walk(tree) iterates the       *)
(* root's rendering) and so it has no before/after hook.                   *)
(***************************************************************************)
EXTENDS Integers, Sequences, FiniteSets, TLC

VARIABLES tree, finder, pc, next, open, current_path,
          current, target, found_path,
          target_path, current_position, left_of_current_position,
          top_left, bottom_right, found, fallback, result, stale

vars == <<tree, finder, pc, next, open, current_path,
          current, target, found_path,
          target_path, current_position, left_of_current_position,
          top_left, bottom_right, found, fallback, result, stale>>

walkerVars == <<next, open, current_path>>
findVars == <<current, target, found_path>>
boxVars == <<target_path, current_position, left_of_current_position,
             top_left, bottom_right, found, fallback>>

----------------------------------------------------------------------------
(* Bounds of the model *)

MaxChars == 2
MaxLine == 2
MaxColumn == 2

----------------------------------------------------------------------------
(* Values *)

None == [some |-> FALSE]
Some(v) == [some |-> TRUE, val |-> v]

NL == "\n"
Chars == {"a", NL}
NoKey == -1

STOP == TRUE

Running == [status |-> "running"]
Returned(v) == [status |-> "returned", value |-> v]
Raised(e) == [status |-> "raised", error |-> e]

----------------------------------------------------------------------------
(* Position *)

make_position(line, column) == [line |-> line, column |-> column]

advance_columns(p, columns) == [p EXCEPT !.column = p.column + columns]

advance_line(p) == [line |-> p.line + 1, column |-> 1]

left(p) == [line |-> p.line, column |-> p.column - 1]

Position_lt(p, q) ==
    \/ p.line < q.line
    \/ p.line = q.line /\ p.column < q.column

Position_ge(p, q) == ~Position_lt(p, q)

deepcopy(v) == v

----------------------------------------------------------------------------
(* BoundingBox: a namedtuple of two fields.  Its constructor takes the two *)
(* fields as two positional arguments and raises TypeError otherwise.      *)

BoundingBox(args) ==
    IF Len(args) = 2
    THEN Returned([top_left |-> args[1], bottom_right |-> args[2]])
    ELSE Raised("TypeError")

make_bounding_box(tl, br) ==
    BoundingBox(<< [first |-> deepcopy(tl), second |-> deepcopy(br)] >>)

----------------------------------------------------------------------------
(* Text utilities *)

RECURSIVE FirstNewline(_, _)
FirstNewline(text, i) ==
    IF i > Len(text) THEN 0
    ELSE IF text[i] = NL THEN i
    ELSE FirstNewline(text, i + 1)

RECURSIVE split_on_newlines(_)
split_on_newlines(text) ==
    LET i == FirstNewline(text, 1) IN
    IF i = 0 THEN <<text>>
    ELSE <<SubSeq(text, 1, i - 1), <<NL>>>>
            \o split_on_newlines(SubSeq(text, i + 1, Len(text)))

is_newline(c) == c = <<NL>>

----------------------------------------------------------------------------
(* Trees *)
(* Render keys are compared for equality only, so the keyed items that     *)
(* share a parent path carry the keys 0, 1, 2, ... in render order (as the *)
(* elements of a rendered list do); NoKey stands for render_key None.      *)

\* The shapes of the trees: the depths of the items in render order, every
\* forest of at most three items.
Shapes ==
    { <<>>, <<1>>, <<1, 1>>, <<1, 2>>,
      <<1, 1, 1>>, <<1, 1, 2>>, <<1, 2, 1>>, <<1, 2, 2>>, <<1, 2, 3>> }

RECURSIVE SeqsUpTo(_, _)
SeqsUpTo(S, n) ==
    IF n = 0 THEN {<<>>}
    ELSE LET R == SeqsUpTo(S, n - 1) IN
         R \cup {Append(s, x) : s \in {r \in R : Len(r) = n - 1}, x \in S}

RECURSIVE Parent(_, _, _)
Parent(t, i, j) ==
    IF j = 0 THEN 0
    ELSE IF t[j].depth = t[i].depth - 1 THEN j
    ELSE Parent(t, i, j - 1)

RECURSIVE PathOf(_, _)
PathOf(t, i) ==
    IF i = 0 THEN <<>>
    ELSE LET up == PathOf(t, Parent(t, i, i - 1)) IN
         IF t[i].key # NoKey THEN Append(up, t[i].key) ELSE up

ParentPath(t, i) == PathOf(t, Parent(t, i, i - 1))

Nodes(t) == {i \in 1..Len(t) : t[i].kind # "constant"}

RECURSIVE TextLen(_, _)
TextLen(t, i) ==
    IF i = 0 THEN 0 ELSE Len(t[i].text) + TextLen(t, i - 1)

NextKey(t, i) ==
    Cardinality({j \in 1..(i - 1) :
                    t[j].key # NoKey /\ ParentPath(t, j) = ParentPath(t, i)})

WellFormed(t) ==
    /\ [i \in 1..Len(t) |-> t[i].depth] \in Shapes
    /\ \A i \in 2..Len(t) : t[i].depth > t[i - 1].depth => t[i - 1].kind = "node"
    /\ \A i \in 1..Len(t) : t[i].key # NoKey => t[i].key = NextKey(t, i)
    /\ \A i \in Nodes(t) : t[i].text = <<>>
    /\ TextLen(t, Len(t)) <= MaxChars

ItemsAfter(t) ==
    LET n == Len(t)
        depths == IF n = 0 THEN {1}
                  ELSE IF t[n].kind = "node" THEN 1..(t[n].depth + 1)
                  ELSE 1..t[n].depth
    IN [depth : depths, key : {NoKey} \cup 0..n, kind : {"node"}, text : {<<>>}]
       \cup [depth : depths, key : {NoKey} \cup 0..n, kind : {"constant"},
             text : SeqsUpTo(Chars, MaxChars - TextLen(t, n))]

RECURSIVE TreesOfLen(_)
TreesOfLen(n) ==
    IF n = 0 THEN {<<>>}
    ELSE {u \in UNION {{Append(t, x) : x \in ItemsAfter(t)} : t \in TreesOfLen(n - 1)} :
            WellFormed(u)}

Trees == UNION {TreesOfLen(Len(s)) : s \in Shapes}

ValidPaths(t) == {<<>>} \cup {PathOf(t, i) : i \in 1..Len(t)}

PathArguments(t) ==
    {None} \cup {Some(p) : p \in ValidPaths(t) \cup {<<0>>, <<1>>}
                                \cup {Append(q, 0) : q \in ValidPaths(t)}}

----------------------------------------------------------------------------
(* RenderWalker: the depth-first walk the two finders specialise.          *)
(* _walk_on_item calls before(item); a STOP from it ends the walk of that   *)
(* item at once (its after hook is not called); otherwise the item's own   *)
(* items are walked, then after(item) runs, and a STOP from below is       *)
(* handed upwards through the after hooks of the enclosing items.          *)

NextIsChild == next <= Len(tree) /\ tree[next].depth = Len(open) + 1

Top == open[Len(open)]

Pop(s) == SubSeq(s, 1, Len(s) - 1)

----------------------------------------------------------------------------
(* PathWalker *)

PathWalker_walk_keeps_stack == current_path

PathWalker_walk == <<>>

PathWalker_before(path, render_key) ==
    IF render_key # NoKey THEN Append(path, render_key) ELSE path

PathWalker_after_always_pops(path, render_key) ==
    Pop(path)

PathWalker_after(path, render_key) ==
    IF render_key # NoKey THEN Pop(path) ELSE path

----------------------------------------------------------------------------
(* PositionFinder *)

is_on_targetted_node_inclusive(cur, tgt, advance_by) ==
    /\ tgt.line = cur.line
    /\ tgt.column >= cur.column
    /\ tgt.column <= cur.column + advance_by

is_on_targetted_node_unbounded_left(cur, tgt, advance_by) ==
    /\ tgt.line = cur.line
    /\ tgt.column < cur.column + advance_by

is_on_targetted_node(cur, tgt, advance_by) ==
    /\ tgt.line = cur.line
    /\ tgt.column >= cur.column
    /\ tgt.column < cur.column + advance_by

RECURSIVE before_leaf_ignores_line(_, _, _, _)
before_leaf_ignores_line(runs, i, cur, tgt) ==
    IF i > Len(runs)
    THEN [current |-> cur, hit |-> FALSE, stop |-> ~STOP]
    ELSE IF is_newline(runs[i])
    THEN before_leaf_ignores_line(runs, i + 1, advance_line(cur), tgt)
    ELSE LET advance_by == Len(runs[i]) IN
         IF is_on_targetted_node(cur, tgt, advance_by)
         THEN [current |-> cur, hit |-> TRUE, stop |-> STOP]
         ELSE before_leaf_ignores_line(runs, i + 1,
                                       advance_columns(cur, advance_by), tgt)

RECURSIVE before_leaf_keeps_column(_, _, _, _)
before_leaf_keeps_column(runs, i, cur, tgt) ==
    IF i > Len(runs)
    THEN [current |-> cur, hit |-> FALSE, stop |-> ~STOP]
    ELSE IF is_newline(runs[i])
    THEN LET moved == advance_line(cur) IN
         IF moved.line > tgt.line
         THEN [current |-> moved, hit |-> FALSE, stop |-> STOP]
         ELSE before_leaf_keeps_column(runs, i + 1, moved, tgt)
    ELSE LET advance_by == Len(runs[i]) IN
         IF is_on_targetted_node(cur, tgt, advance_by)
         THEN [current |-> cur, hit |-> TRUE, stop |-> STOP]
         ELSE before_leaf_keeps_column(runs, i + 1, cur, tgt)

RECURSIVE before_leaf_hit_continues(_, _, _, _)
before_leaf_hit_continues(runs, i, cur, tgt) ==
    IF i > Len(runs)
    THEN [current |-> cur, hit |-> FALSE, stop |-> ~STOP]
    ELSE IF is_newline(runs[i])
    THEN LET moved == advance_line(cur) IN
         IF moved.line > tgt.line
         THEN [current |-> moved, hit |-> FALSE, stop |-> STOP]
         ELSE before_leaf_hit_continues(runs, i + 1, moved, tgt)
    ELSE LET advance_by == Len(runs[i]) IN
         IF is_on_targetted_node(cur, tgt, advance_by)
         THEN [current |-> cur, hit |-> TRUE, stop |-> ~STOP]
         ELSE before_leaf_hit_continues(runs, i + 1,
                                        advance_columns(cur, advance_by), tgt)

RECURSIVE before_leaf(_, _, _, _)
before_leaf(runs, i, cur, tgt) ==
    IF i > Len(runs)
    THEN [current |-> cur, hit |-> FALSE, stop |-> ~STOP]
    ELSE IF is_newline(runs[i])
    THEN LET moved == advance_line(cur) IN
         IF moved.line > tgt.line
         THEN [current |-> moved, hit |-> FALSE, stop |-> STOP]
         ELSE before_leaf(runs, i + 1, moved, tgt)
    ELSE LET advance_by == Len(runs[i]) IN
         IF is_on_targetted_node(cur, tgt, advance_by)
         THEN [current |-> cur, hit |-> TRUE, stop |-> STOP]
         ELSE before_leaf(runs, i + 1, advance_columns(cur, advance_by), tgt)

find(line, column) ==
    /\ finder = "PositionFinder"
    /\ pc \in {"idle", "done"}
    /\ current' = make_position(1, 1)
    /\ target' = make_position(line, column)
    /\ found_path' = None
    /\ current_path' = PathWalker_walk
    /\ next' = 1
    /\ open' = <<>>
    /\ pc' = "walk"
    /\ result' = Running
    /\ stale' = (current_path # <<>>)
    /\ UNCHANGED <<tree, finder, boxVars>>

FindBefore ==
    /\ finder = "PositionFinder"
    /\ pc = "walk"
    /\ NextIsChild
    /\ LET item == tree[next]
           path == PathWalker_before(current_path, item.key)
           leaf == IF item.kind = "constant"
                   THEN before_leaf(split_on_newlines(item.text), 1, current, target)
                   ELSE [current |-> current, hit |-> FALSE, stop |-> ~STOP]
       IN /\ current_path' = path
          /\ current' = leaf.current
          /\ found_path' = IF leaf.hit THEN Some(deepcopy(path)) ELSE found_path
          /\ IF leaf.stop = STOP
             THEN pc' = "unwind" /\ UNCHANGED <<next, open>>
             ELSE pc' = pc /\ open' = Append(open, next) /\ next' = next + 1
    /\ UNCHANGED <<tree, finder, target, boxVars, result, stale>>

FindAfter ==
    /\ finder = "PositionFinder"
    /\ open # <<>>
    /\ \/ pc = "walk" /\ ~NextIsChild
       \/ pc = "unwind"
    /\ current_path' = PathWalker_after(current_path, tree[Top].key)
    /\ open' = Pop(open)
    /\ UNCHANGED <<tree, finder, pc, next, findVars, boxVars, result, stale>>

FindReturn ==
    /\ finder = "PositionFinder"
    /\ open = <<>>
    /\ \/ pc = "walk" /\ ~NextIsChild
       \/ pc = "unwind"
    /\ result' = Returned(found_path)
    /\ pc' = "done"
    /\ UNCHANGED <<tree, finder, walkerVars, findVars, boxVars, stale>>

----------------------------------------------------------------------------
(* BoundingBoxFinder *)

InitiallyFound(path) ==
    IF path = None \/ Len(path.val) = 0 THEN TRUE ELSE FALSE

compute(path) ==
    /\ finder = "BoundingBoxFinder"
    /\ pc \in {"idle", "done"}
    /\ target_path' = path
    /\ current_position' = make_position(1, 1)
    /\ left_of_current_position' = make_position(1, 0)
    /\ top_left' = None
    /\ bottom_right' = None
    /\ found' = InitiallyFound(path)
    /\ fallback' = FALSE
    /\ current_path' = PathWalker_walk
    /\ next' = 1
    /\ open' = <<>>
    /\ pc' = "walk"
    /\ result' = Running
    /\ stale' = (current_path # <<>>)
    /\ UNCHANGED <<tree, finder, findVars>>

RECURSIVE ConsumeRuns_newline_moves_left(_, _, _, _)
ConsumeRuns_newline_moves_left(runs, i, cur, lft) ==
    IF i > Len(runs)
    THEN [current_position |-> cur, left_of_current_position |-> lft]
    ELSE IF is_newline(runs[i])
    THEN LET moved == advance_line(cur) IN
         ConsumeRuns_newline_moves_left(runs, i + 1, moved, left(moved))
    ELSE IF runs[i] # <<>>
    THEN LET moved == advance_columns(cur, Len(runs[i])) IN
         ConsumeRuns_newline_moves_left(runs, i + 1, moved, left(moved))
    ELSE ConsumeRuns_newline_moves_left(runs, i + 1, cur, lft)

RECURSIVE ConsumeRuns(_, _, _, _)
ConsumeRuns(runs, i, cur, lft) ==
    IF i > Len(runs)
    THEN [current_position |-> cur, left_of_current_position |-> lft]
    ELSE IF is_newline(runs[i])
    THEN ConsumeRuns(runs, i + 1, advance_line(cur), lft)
    ELSE IF runs[i] # <<>>
    THEN LET moved == advance_columns(cur, Len(runs[i])) IN
         ConsumeRuns(runs, i + 1, moved, left(moved))
    ELSE ConsumeRuns(runs, i + 1, cur, lft)

OnTarget(path, tpath) == Some(path) = tpath

\* a holder that is the finder's live object `name` itself instead of a copy
Alias(name) == [alias |-> name]

CaptureTopLeft_shares_cursor(path, tpath, old, cur) ==
    IF OnTarget(path, tpath) THEN Alias("current_position") ELSE old

CaptureTopLeft(path, tpath, old, cur) ==
    IF OnTarget(path, tpath) THEN deepcopy(cur) ELSE old

CaptureBottomRight_takes_cursor(path, tpath, fnd, old, lft) ==
    IF old = None /\ fnd /\ OnTarget(path, tpath)
    THEN deepcopy([lft EXCEPT !.column = lft.column + 1])
    ELSE old

CaptureBottomRight(path, tpath, fnd, old, lft) ==
    IF old = None /\ fnd /\ OnTarget(path, tpath) THEN deepcopy(lft) ELSE old

BoxBefore ==
    /\ finder = "BoundingBoxFinder"
    /\ pc = "walk"
    /\ NextIsChild
    /\ LET item == tree[next]
           path == PathWalker_before(current_path, item.key)
           moved == IF item.kind # "constant"
                    THEN [current_position |-> current_position,
                          left_of_current_position |-> left_of_current_position]
                    ELSE ConsumeRuns(split_on_newlines(item.text), 1,
                                     current_position, left_of_current_position)
       IN /\ current_path' = path
          /\ found' = (found \/ OnTarget(path, target_path))
          /\ top_left' = CaptureTopLeft(path, target_path, top_left, current_position)
          /\ current_position' = moved.current_position
          /\ left_of_current_position' = moved.left_of_current_position
    /\ open' = Append(open, next)
    /\ next' = next + 1
    /\ UNCHANGED <<tree, finder, pc, findVars, target_path, bottom_right,
                   fallback, result, stale>>

BoxAfter ==
    /\ finder = "BoundingBoxFinder"
    /\ pc = "walk"
    /\ open # <<>>
    /\ ~NextIsChild
    /\ bottom_right' = CaptureBottomRight(current_path, target_path, found,
                                          bottom_right, left_of_current_position)
    /\ current_path' = PathWalker_after(current_path, tree[Top].key)
    /\ open' = Pop(open)
    /\ UNCHANGED <<tree, finder, pc, next, findVars, target_path,
                   current_position, left_of_current_position, top_left,
                   found, fallback, result, stale>>

NothingCaptured_ignores_found(fnd, tl, br) == tl = None /\ br = None

NothingCaptured(fnd, tl, br) == fnd /\ tl = None /\ br = None

\* the two positions compute hands to make_bounding_box
BoxArguments(fnd, tl, br, lft) ==
    IF NothingCaptured(fnd, tl, br)
    THEN <<make_position(1, 1), lft>>
    ELSE <<tl, br>>

ComputeReturn ==
    /\ finder = "BoundingBoxFinder"
    /\ pc = "walk"
    /\ open = <<>>
    /\ ~NextIsChild
    /\ LET args == BoxArguments(found, top_left, bottom_right,
                                left_of_current_position)
       IN result' = make_bounding_box(args[1], args[2])
    /\ fallback' = NothingCaptured(found, top_left, bottom_right)
    /\ pc' = "done"
    /\ UNCHANGED <<tree, finder, walkerVars, findVars, target_path,
                   current_position, left_of_current_position, top_left,
                   bottom_right, found, stale>>

----------------------------------------------------------------------------
(* The public entry points build a finder and run one query on it.         *)

position_to_path == \E line \in 0..MaxLine, column \in 0..MaxColumn : find(line, column)

path_to_bounding_box == \E path \in PathArguments(tree) \ {None} : compute(path)

node_to_bounding_box == compute(None)

Init ==
    /\ tree \in Trees
    /\ finder \in {"PositionFinder", "BoundingBoxFinder"}
    /\ pc = "idle"
    /\ next = 1
    /\ open = <<>>
    /\ current_path = <<>>
    /\ current = None
    /\ target = None
    /\ found_path = None
    /\ target_path = None
    /\ current_position = None
    /\ left_of_current_position = None
    /\ top_left = None
    /\ bottom_right = None
    /\ found = FALSE
    /\ fallback = FALSE
    /\ result = Running
    /\ stale = FALSE

Next ==
    \/ position_to_path
    \/ FindBefore
    \/ FindAfter
    \/ FindReturn
    \/ path_to_bounding_box
    \/ node_to_bounding_box
    \/ BoxBefore
    \/ BoxAfter
    \/ ComputeReturn

Spec == Init /\ [][Next]_vars

TypeOK ==
    /\ pc \in {"idle", "walk", "unwind", "done"}
    /\ next \in 1..(Len(tree) + 1)
    /\ found \in BOOLEAN

----------------------------------------------------------------------------
(* The rendered text, computed from the tree alone: the characters of the  *)
(* leaves in render order, each with the item it belongs to, and the       *)
(* (line, column) at which a text editor shows the n-th of them.           *)

RECURSIVE Rendered(_, _)
Rendered(t, i) ==
    IF i = 0 THEN <<>>
    ELSE Rendered(t, i - 1)
           \o [k \in 1..Len(t[i].text) |-> [char |-> t[i].text[k], item |-> i]]

Text == Rendered(tree, Len(tree))

Max(S) == CHOOSE x \in S : \A y \in S : y <= x

CharPos(r, n) ==
    LET newlines == {m \in 1..(n - 1) : r[m].char = NL} IN
    [line |-> 1 + Cardinality(newlines), column |-> n - Max(newlines \cup {0})]

Visible(r) == {n \in 1..Len(r) : r[n].char # NL}

RECURSIVE SubtreeEnd(_, _, _)
SubtreeEnd(t, i, j) ==
    IF j + 1 > Len(t) \/ t[j + 1].depth <= t[i].depth THEN j
    ELSE SubtreeEnd(t, i, j + 1)

\* the indexes in Text of the characters the item i renders
CharsOf(t, i) ==
    (Len(Rendered(t, i - 1)) + 1)..Len(Rendered(t, SubtreeEnd(t, i, i)))

Keyed(t) == {i \in 1..Len(t) : t[i].key # NoKey}

FindDone == finder = "PositionFinder" /\ pc = "done"

BoxDone == finder = "BoundingBoxFinder" /\ pc = "done"

Box(tl, br) == [top_left |-> tl, bottom_right |-> br]

\* the item the finished bounding-box query was aimed at, if its path is
\* the path of a keyed item
Targeted == {i \in Keyed(tree) : target_path = Some(PathOf(tree, i))}

\* the box a finished bounding-box query built: the two positions compute
\* handed to make_bounding_box
Corners ==
    LET args == BoxArguments(found, top_left, bottom_right,
                             left_of_current_position)
    IN Box(args[1], args[2])

WholeTreeBox ==
    Box(make_position(1, 1),
        IF Visible(Text) = {} THEN make_position(1, 0)
        ELSE CharPos(Text, Max(Visible(Text))))

----------------------------------------------------------------------------
\* C1: for every non-newline character rendered at (L, C),
\* position_to_path(T, L, C) returns the path of the leaf holding it.
C1_PositionToPath ==
    FindDone =>
        \A n \in Visible(Text) :
            CharPos(Text, n) = target
                => result = Returned(Some(PathOf(tree, Text[n].item)))

C1_Witness ==
    /\ FindDone
    /\ \E n \in Visible(Text) :
          /\ CharPos(Text, n) = target
          /\ n > 1
          /\ Text[n].item # Text[1].item
          /\ Len(PathOf(tree, Text[n].item)) = 2
    /\ result.value # None

\* C2: position_to_path returns None, without raising, for every (L, C)
\* that is not the position of a non-newline rendered character.
C2_AbsentOutside ==
    FindDone =>
        ((\A n \in Visible(Text) : CharPos(Text, n) # target)
            => result = Returned(None))

C2_Witness ==
    /\ FindDone
    /\ result = Returned(None)
    /\ \E n \in 1..Len(Text) : Text[n].char = NL /\ CharPos(Text, n) = target
    /\ Visible(Text) # {}

\* C3: for a node N at a valid path whose text has a non-newline
\* character, the box of path_to_bounding_box has top_left = the cursor
\* where N's text starts and bottom_right = the position of N's last
\* non-newline character, whatever the shape of N's subtree.
C3_NodeBox ==
    BoxDone =>
        \A i \in Targeted :
            LET seen == CharsOf(tree, i) \cap Visible(Text) IN
            seen # {} =>
                Corners = Box(CharPos(Text, Len(Rendered(tree, i - 1)) + 1),
                              CharPos(Text, Max(seen)))

\* C4: node_to_bounding_box(tree) returns a box with top_left = (1, 1) and
\* bottom_right = left-of-cursor at the end of the walk, the position of
\* the last non-newline character, or (1, 0) when there is none.
C4_WholeTree ==
    (BoxDone /\ target_path = None) =>
        /\ WholeTreeBox.bottom_right = left_of_current_position
        /\ result = Returned(WholeTreeBox)

\* C5: path_to_bounding_box(tree, []) builds the same box as the
\* whole-tree query with the path absent, also when top-level items carry
\* no render key.
C5_EmptyPathIsWholeTree ==
    (BoxDone /\ target_path = Some(<<>>)) => Corners = WholeTreeBox

\* C6: for a node at a valid path with non-empty text (text of newlines
\* only included) the box has bottom_right >= top_left in line-major
\* order.
C6_Ordered ==
    BoxDone =>
        \A i \in Targeted :
            CharsOf(tree, i) # {} =>
                Position_ge(Corners.bottom_right, Corners.top_left)

C8_FreshStart ==
    (pc = "walk" /\ next = 1 /\ open = <<>>) =>
        /\ current_path = <<>>
        /\ result = Running
        /\ finder = "PositionFinder" =>
              current = make_position(1, 1) /\ found_path = None
        /\ finder = "BoundingBoxFinder" =>
              /\ current_position = make_position(1, 1)
              /\ left_of_current_position = make_position(1, 0)
              /\ top_left = None
              /\ bottom_right = None
              /\ found = (target_path \in {None, Some(<<>>)})

C8_Witness == pc = "walk" /\ next = 1 /\ open = <<>> /\ stale

\* C9: when the target path never equals the current path, found stays
\* false and the (1,1)-left-of-cursor fallback is not taken; the fallback
\* is taken only when found is true and neither corner was set.
C9_NoFallbackOnMiss ==
    BoxDone =>
        /\ (target_path # None /\ target_path.val \notin ValidPaths(tree))
              => (~found /\ ~fallback)
        /\ fallback => (found /\ top_left = None /\ bottom_right = None)

C9_Witness ==
    /\ BoxDone
    /\ target_path # None
    /\ target_path.val \notin ValidPaths(tree)
    /\ ~found
    /\ Visible(Text) # {}
    /\ top_left = None
    /\ bottom_right = None

\* C10: once top_left is set during a bounding-box walk, no later
\* before-hook changes it.
C10_TopLeftKept ==
    [][(pc = "walk" /\ pc' = "walk" /\ top_left # None) => top_left' = top_left]_vars

----------------------------------------------------------------------------
C12_PushPopOrder ==
    [][/\ open' = Append(open, next) =>
             /\ current_path' = IF tree[next].key # NoKey
                                THEN Append(current_path, tree[next].key)
                                ELSE current_path
             /\ pc' = "walk"
             /\ found_path' = None
       /\ (pc = "walk" /\ pc' = "unwind") =>
             /\ current_path' = IF tree[next].key # NoKey
                                THEN Append(current_path, tree[next].key)
                                ELSE current_path
             /\ found_path' \in {None, Some(current_path')}
             /\ found_path' = None => current'.line > target.line
       /\ (open # <<>> /\ open' = Pop(open)) =>
             /\ Len(current_path') =
                   Len(current_path) - (IF tree[Top].key # NoKey THEN 1 ELSE 0)
             /\ current_path' = SubSeq(current_path, 1, Len(current_path'))
             /\ pc' = pc
      ]_vars

C12_Witness ==
    /\ finder = "PositionFinder"
    /\ pc = "done"
    /\ found_path = Some(<<0, 0>>)
    /\ current_path = <<0>>

\* C13: in a position lookup with target line >= 1 the leaf hook signals
\* stop, with found_path absent, as soon as a newline run moves the cursor's
\* line past the target line; so while the walk is running the cursor's line
\* is at most the target line, and the cursor never goes beyond column 1 of
\* the line after the target line (no run on a later line is examined).
C13_StopPastTargetLine ==
    /\ []((finder = "PositionFinder" /\ pc \in {"walk", "unwind", "done"}
           /\ target.line >= 1) =>
             /\ pc = "walk" => current.line <= target.line
             /\ current.line > target.line =>
                   /\ current = make_position(target.line + 1, 1)
                   /\ found_path = None
                   /\ pc = "done" => result = Returned(None))
    /\ [][(finder = "PositionFinder" /\ pc = "walk" /\ target.line >= 1
           /\ current'.line > target.line) =>
             (pc' = "unwind" /\ found_path' = None /\ next' = next)]_vars

C13_Witness ==
    /\ finder = "PositionFinder"
    /\ pc = "done"
    /\ target.line = 1
    /\ current = make_position(2, 1)
    /\ result = Returned(None)
    /\ next < Len(tree)

\* The non-newline runs of the tree's leaves, in the order split_on_newlines
\* yields them, empty runs included: the leaf, the cursor position at which
\* the run starts and its length.
RECURSIVE RunLen(_, _)
RunLen(text, k) ==
    IF k > Len(text) \/ text[k] = NL THEN 0 ELSE 1 + RunLen(text, k + 1)

RunStarts(text) ==
    {k \in 1..(Len(text) + 1) : k = 1 \/ text[k - 1] = NL}

Runs ==
    UNION {{[item |-> i,
             at |-> CharPos(Text, Len(Rendered(tree, i - 1)) + k),
             len |-> RunLen(tree[i].text, k)] : k \in RunStarts(tree[i].text)} :
           i \in {j \in 1..Len(tree) : tree[j].kind = "constant"}}

Matches(r) ==
    /\ target.line = r.at.line
    /\ r.at.column <= target.column
    /\ target.column < r.at.column + r.len

\* C14: a non-newline run of length K that starts at cursor column s matches
\* iff the cursor is on the target line and s <= target column < s + K.  The
\* spans of the runs on one line are disjoint and contiguous, so at most one
\* run contains a given (line, column); the lookup returns the path of that
\* run's leaf, a column on a run boundary goes to the run that starts there,
\* and a run of length 0 never matches.
C14_RunContainment ==
    FindDone =>
        LET M == {r \in Runs : Matches(r)} IN
        /\ Cardinality(M) <= 1
        /\ \A r \in M : r.len > 0 /\ result = Returned(Some(PathOf(tree, r.item)))
        /\ M = {} => result = Returned(None)
        /\ \A r1, r2 \in Runs :
              (r1 # r2 /\ r1.at.line = r2.at.line) =>
                  \/ r1.at.column + r1.len <= r2.at.column
                  \/ r2.at.column + r2.len <= r1.at.column
        /\ \A r \in Runs :
              r.at.column = 1 \/ \E q \in Runs : /\ q.at.line = r.at.line
                                                /\ q.len > 0
                                                /\ q.at.column + q.len = r.at.column

C14_Witness ==
    /\ FindDone
    /\ \E r0, r1, r2 \in Runs :
          /\ r1.len > 0 /\ r0.len = 0 /\ r2.len > 0
          /\ r1.at.line = target.line
          /\ r1.at.column + r1.len = target.column
          /\ r0.at = target
          /\ r2.at = target
          /\ r1.item < r0.item /\ r0.item < r2.item
          /\ PathOf(tree, r0.item) # PathOf(tree, r2.item)
          /\ result = Returned(Some(PathOf(tree, r2.item)))

\* the position resolver's half of C15: the leaf hook in which the target is
\* found signals stop, so the walk is over as soon as found_path is set and
\* the leaf that holds the target is the last item entered
StopOnHit ==
    (finder = "PositionFinder" /\ pc \in {"walk", "unwind", "done"}
     /\ found_path # None) =>
        /\ pc # "walk"
        /\ next <= Len(tree)
        /\ \E r \in Runs : r.item = next /\ Matches(r)

\* C15: both resolvers end their walk through the stop signal on success:
\* the position resolver stops in the leaf hook in which the target is found,
\* and the bounding-box resolver stops once bottom_right has been captured,
\* so that no item is entered after that.
C15_StopOnSuccess ==
    /\ []StopOnHit
    /\ [][(finder = "BoundingBoxFinder" /\ bottom_right # None) =>
              open' # Append(open, next)]_vars

\* C15 as the code has it: the position resolver stops in the leaf hook in
\* which the target is found; the bounding-box resolver never signals stop,
\* its walk enters every item of the tree and completes, also after
\* bottom_right has been captured.
C15_StopOnSuccessAmended ==
    /\ []StopOnHit
    /\ [](finder = "BoundingBoxFinder" => pc # "unwind")
    /\ [](BoxDone => (next = Len(tree) + 1 /\ open = <<>>))
    /\ [][(finder = "BoundingBoxFinder" /\ pc = "walk") =>
              (pc' = "walk" \/ (pc' = "done" /\ next = Len(tree) + 1))]_vars

C15_Witness ==
    /\ BoxDone
    /\ bottom_right # None
    /\ top_left # None
    /\ left_of_current_position # bottom_right
    /\ Position_lt(bottom_right, current_position)

\* The value read through a holder: a copy is its own value, a holder that
\* is a live object of the finder shows whatever that object holds now.
Deref(h) ==
    IF h = Alias("current_position") THEN current_position
    ELSE IF h = Alias("left_of_current_position") THEN left_of_current_position
    ELSE IF h = Alias("current_path") THEN Some(current_path)
    ELSE h

Aliases == {Alias(n) : n \in {"current_position", "left_of_current_position",
                              "current_path"}}

C17_BoxReturned ==
    BoxDone =>
        LET args == BoxArguments(found, top_left, bottom_right,
                                 left_of_current_position)
        IN /\ result \notin {Raised("TypeError")}
           /\ result = Returned(Box(deepcopy(args[1]), deepcopy(args[2])))

\* C18: the two resolvers agree.  For every non-newline character of a leaf,
\* at position (L, C), the path P that position_to_path gives for (L, C) is
\* the path of that leaf, and the box path_to_bounding_box builds for P
\* contains the position: top_left <= (L, C) <= bottom_right.
C18_ResolversAgree ==
    BoxDone =>
        \A n \in Visible(Text) :
            target_path = Some(PathOf(tree, Text[n].item)) =>
                /\ Position_ge(CharPos(Text, n), Corners.top_left)
                /\ Position_ge(Corners.bottom_right, CharPos(Text, n))

\* C19: in every state of a bounding-box walk the cursor has line >= 1 and
\* column >= 1 and never decreases in line-major order;
\* left_of_current_position is strictly less than the cursor and has
\* column >= 0; newline runs and empty runs leave it unchanged: entering an
\* item without a non-newline character does not change it, and after a leaf
\* with such characters it is the position of the last of them, whatever
\* newlines follow.
C19_CursorMonotone ==
    /\ []((finder = "BoundingBoxFinder" /\ pc \in {"walk", "done"}) =>
             /\ current_position.line >= 1
             /\ current_position.column >= 1
             /\ left_of_current_position.column >= 0
             /\ Position_lt(left_of_current_position, current_position))
    /\ [][(finder = "BoundingBoxFinder" /\ pc = "walk") =>
             /\ Position_ge(current_position', current_position)
             /\ open' = Append(open, next) =>
                   LET chars == {n \in Visible(Text) : Text[n].item = next} IN
                   left_of_current_position' =
                       IF chars = {} THEN left_of_current_position
                       ELSE CharPos(Text, Max(chars))
      ]_vars

C19_Witness ==
    /\ finder = "BoundingBoxFinder"
    /\ pc = "walk"
    /\ current_position.line = 2
    /\ left_of_current_position.line = 1
    /\ left_of_current_position.column >= 1

====
